---- MODULE Spec2Model ----
(***************************************************************************)
(* Model of the IPAM repository (persistence.IPAMRepository) working       *)
(* against the two PostgreSQL tables of the README schema.  Every SQL      *)
(* statement of a call is one step; statements of a transaction see the    *)
(* rows committed when the statement starts (READ COMMITTED, the default   *)
(* isolation of database/sql with PostgreSQL) plus the transaction's own   *)
(* uncommitted row.  The schema declares no UNIQUE constraint besides the  *)
(* primary keys, so no insert is ever rejected by the store.               *)
(***************************************************************************)
EXTENDS Integers, Sequences, FiniteSets, TLC

(* ------------------------------ bounds --------------------------------- *)
NumProcs == 2
MaxNetworks == 1
MaxRecords == 2

Procs == 1..NumProcs

(* ------------------------- address arithmetic -------------------------- *)
\* an address is net.IP: a sequence of octets, most significant first
OctetMod == 256

RECURSIVE Pow2(_)
Pow2(n) == IF n = 0 THEN 1 ELSE 2 * Pow2(n - 1)

Min(a, b) == IF a < b THEN a ELSE b
Max(a, b) == IF a > b THEN a ELSE b

\* number of one bits of a prefix mask of length ones that fall in octet i
MaskBits(ones, i) == Max(0, Min(8, ones - 8 * (i - 1)))

\* octet & mask octet, the mask octet having k leading one bits
AndMask(octet, k) == (octet \div Pow2(8 - k)) * Pow2(8 - k)

\* net.IPNet.Contains
Contains(ipNet, ip) ==
    /\ Len(ip) = Len(ipNet.ip)
    /\ \A i \in 1..Len(ip) :
          AndMask(ipNet.ip[i], MaskBits(ipNet.ones, i)) = AndMask(ip[i], MaskBits(ipNet.ones, i))

\* the loop of nextIP from octet j down to octet 1
RECURSIVE nextIPFrom(_, _)
nextIPFrom(next, j) ==
    IF j = 0 THEN next
    ELSE LET inc == [next EXCEPT ![j] = (next[j] + 1) % OctetMod]
         IN  IF inc[j] > 0 THEN inc ELSE nextIPFrom(inc, j - 1)

nextIP_NoCarry(ip) == [ip EXCEPT ![Len(ip)] = (ip[Len(ip)] + 1) % OctetMod]
nextIP(ip) == nextIPFrom(ip, Len(ip))

\* numeric order of two addresses of the same length
RECURSIVE IPLessFrom(_, _, _)
IPLessFrom(a, b, i) ==
    IF i > Len(a) THEN FALSE
    ELSE IF a[i] # b[i] THEN a[i] < b[i]
    ELSE IPLessFrom(a, b, i + 1)

IPLess(a, b) == IPLessFrom(a, b, 1)

\* net.IP.Equal on addresses of one family
IPEqual(a, b) == a = b

(* ------------------------------- inputs -------------------------------- *)
IP(d) == <<10, 0, 0, d>>

\* the absent requested_ip (a nil net.IP)
NilIP == <<>>

\* the (CIDR, gateway) pairs networks are created with: 10.0.0.0/30 and
\* 10.0.0.0/31 with gateway 10.0.0.1, and 10.0.0.2/31 with the gateway
\* 10.0.0.1, which lies outside that block
CIDR(base, ones) == [ip |-> base, ones |-> ones]
NetworkInputs == { <<CIDR(IP(0), 30), IP(1)>>, <<CIDR(IP(0), 31), IP(1)>>,
                   <<CIDR(IP(2), 31), IP(1)>> }
RequestedIPs == { NilIP, IP(0), IP(1) }
Hostnames == { "h1", "h2", "h3" }
NewHostnames == { "h1" }

\* the requested addresses and the hostnames of the overlapping callers
RacedIPs == { NilIP, IP(1), IP(2) }
RacedHostnames == { "h1", "h2" }

\* SQL NULL in the hostname column; never equal to anything
NULL == "NULL"
SqlEq(a, b) == a # NULL /\ b # NULL /\ a = b

NoRow == [id |-> 0]

\* the id the sequence networks_id_seq gives the first network
FirstNetwork == 1

(* ------------------------------- state --------------------------------- *)
VARIABLES
    networks,       \* table networks: rows [id, cidr, gateway]
    ip_addresses,   \* table ip_addresses, committed rows
    ipSeq,          \* last value of sequence ip_addresses_id_seq
    pc,             \* position of each caller in its call
    call,           \* the operation and arguments of each caller
    ip,             \* loop variable ip of the first-available scan
    err,            \* err of the first-available branch: "nil" or "ErrNoRows"
    pend,           \* the uncommitted row written by the caller's transaction
    result          \* what the call returned

vars == <<networks, ip_addresses, ipSeq, pc, call, ip, err, pend, result>>

NoCall == [op |-> "none"]
NoResult == [outcome |-> "none"]

Init ==
    /\ networks = {}
    /\ ip_addresses = {}
    /\ ipSeq = 0
    /\ pc = [p \in Procs |-> "idle"]
    /\ call = [p \in Procs |-> NoCall]
    /\ ip = [p \in Procs |-> NilIP]
    /\ err = [p \in Procs |-> "nil"]
    /\ pend = [p \in Procs |-> NoRow]
    /\ result = [p \in Procs |-> NoResult]

(* ------------------------------ queries -------------------------------- *)
NetworkRows(id) == { n \in networks : n.id = id }

\* SELECT hostname FROM ip_addresses WHERE network_id = $1 AND hostname = $2
HostnameRows_AnyNetwork(rows, networkID, hostname) ==
    { r \in rows : SqlEq(r.hostname, hostname) }
HostnameRows_EmptyExempt(rows, networkID, hostname) ==
    { r \in rows : r.network_id = networkID /\ SqlEq(r.hostname, hostname) /\ hostname # "" }
HostnameRows_AllocatedOnly(rows, networkID, hostname) ==
    { r \in rows : r.network_id = networkID /\ SqlEq(r.hostname, hostname)
                    /\ r.status = "allocated" }
HostnameRows(rows, networkID, hostname) ==
    { r \in rows : r.network_id = networkID /\ SqlEq(r.hostname, hostname) }

\* SELECT ... FROM ip_addresses WHERE network_id = $1 AND address = $2
AddressRows_AllocatedOnly(rows, networkID, address) ==
    { r \in rows : r.network_id = networkID /\ r.address = address
                    /\ r.status = "allocated" }
AddressRows(rows, networkID, address) ==
    { r \in rows : r.network_id = networkID /\ r.address = address }

\* SELECT hostname ... WHERE network_id = $1 AND hostname = $2 AND id != $3
OtherHostnameRows_WithSelf(rows, networkID, hostname, id) ==
    HostnameRows(rows, networkID, hostname)
OtherHostnameRows(rows, networkID, hostname, id) ==
    { r \in HostnameRows(rows, networkID, hostname) : r.id # id }

\* rows another transaction has updated and not yet committed (row locks)
LockedBy(p) == IF pend[p] # NoRow /\ \E r \in ip_addresses : r.id = pend[p].id
               THEN {pend[p].id} ELSE {}
LockedByOther(p, id) == \E q \in Procs \ {p} : id \in LockedBy(q)

\* requestedIP.Equal(gatewayIP), the test of the explicit branch
RequestedIsGateway_Never(requestedIP, gatewayIP) == FALSE
RequestedIsGateway(requestedIP, gatewayIP) == IPEqual(requestedIP, gatewayIP)

\* ip.Equal(gatewayIP), the test that makes the scan skip a candidate
CandidateIsGateway_Never(candidate, gatewayIP) == FALSE
CandidateIsGateway(candidate, gatewayIP) == IPEqual(candidate, gatewayIP)

\* ip := nextIP(ipNet.IP), the first candidate of the scan
ScanStart_Base(cidr) == cidr.ip
ScanStart(cidr) == nextIP(cidr.ip)

\* WHERE NOT EXISTS (SELECT 1 FROM ip_addresses WHERE network_id = $1 AND address = $2)
CandidateFree_Always(rows, networkID, address) == TRUE
CandidateFree(rows, networkID, address) == AddressRows(rows, networkID, address) = {}

(* ---------------------------- CreateNetwork ---------------------------- *)
\* a single autocommit INSERT; neither the handler nor the repository
\* compares the gateway with the CIDR block
CreateNetworkWithin(limit, cidr, gateway) ==
    /\ Cardinality(networks) < limit
    /\ networks' = networks \cup
          { [id |-> Cardinality(networks) + 1, cidr |-> cidr, gateway |-> gateway] }
    /\ UNCHANGED <<ip_addresses, ipSeq, pc, call, ip, err, pend, result>>

CreateNetwork(cidr, gateway) == CreateNetworkWithin(MaxNetworks, cidr, gateway)

(* ------------------------- calls and returns --------------------------- *)
Finish(p, outcome, row) ==
    /\ pc' = [pc EXCEPT ![p] = "done"]
    /\ result' = [result EXCEPT ![p] = [outcome |-> outcome, ip |-> row]]
    /\ pend' = [pend EXCEPT ![p] = NoRow]
    /\ ip' = [ip EXCEPT ![p] = NilIP]
    /\ err' = [err EXCEPT ![p] = "nil"]

Return(p) ==
    /\ pc[p] = "done"
    /\ pc' = [pc EXCEPT ![p] = "idle"]
    /\ call' = [call EXCEPT ![p] = NoCall]
    /\ result' = [result EXCEPT ![p] = NoResult]
    /\ UNCHANGED <<networks, ip_addresses, ipSeq, ip, err, pend>>

(* ----------------------------- AllocateIP ------------------------------ *)
\* the handler hands network_id, the parsed requested_ip (nil when absent)
\* and hostname to the repository, which begins a transaction
CallAllocateIP(p, networkID, requestedIP, hostname) ==
    /\ pc[p] = "idle"
    /\ pc' = [pc EXCEPT ![p] = "hostname"]
    /\ call' = [call EXCEPT ![p] = [op |-> "AllocateIP", networkID |-> networkID,
                    requestedIP |-> requestedIP, hostname |-> hostname, id |-> 0]]
    /\ UNCHANGED <<networks, ip_addresses, ipSeq, ip, err, pend, result>>

\* the hostname uniqueness check, the first statement of the transaction
AllocCheckHostname(p) ==
    /\ pc[p] = "hostname"
    /\ IF HostnameRows(ip_addresses, call[p].networkID, call[p].hostname) # {}
       THEN Finish(p, "hostname_in_use", NoRow)
       ELSE /\ pc' = [pc EXCEPT ![p] = "network"]
            /\ UNCHANGED <<pend, result, ip, err>>
    /\ UNCHANGED <<networks, ip_addresses, ipSeq, call>>

\* the network read, then the branch on requestedIP with the gateway test
AllocReadNetwork(p) ==
    /\ pc[p] = "network"
    /\ IF NetworkRows(call[p].networkID) = {}
       THEN Finish(p, "no_network", NoRow)
       ELSE LET n == CHOOSE n \in NetworkRows(call[p].networkID) : TRUE IN
            IF call[p].requestedIP # NilIP
            THEN IF RequestedIsGateway(call[p].requestedIP, n.gateway)
                 THEN Finish(p, "gateway", NoRow)
                 ELSE /\ pc' = [pc EXCEPT ![p] = "select"]
                      /\ UNCHANGED <<pend, result, ip, err>>
            ELSE /\ pc' = [pc EXCEPT ![p] = "scan"]
                 /\ ip' = [ip EXCEPT ![p] = ScanStart(n.cidr)]
                 /\ err' = [err EXCEPT ![p] = "nil"]
                 /\ UNCHANGED <<pend, result>>
    /\ UNCHANGED <<networks, ip_addresses, ipSeq, call>>

\* SELECT ... WHERE network_id = $1 AND address = $2 FOR UPDATE: a row of any
\* status makes the call fail; the statement waits for a row another
\* transaction has locked
AllocSelectForUpdate(p) ==
    /\ pc[p] = "select"
    /\ LET found == AddressRows(ip_addresses, call[p].networkID, call[p].requestedIP) IN
       /\ \A r \in found : ~LockedByOther(p, r.id)
       /\ IF found # {}
          THEN Finish(p, "already_allocated", NoRow)
          ELSE /\ pc' = [pc EXCEPT ![p] = "insert"]
               /\ UNCHANGED <<pend, result, ip, err>>
    /\ UNCHANGED <<networks, ip_addresses, ipSeq, call>>

NewRow(id, networkID, address, hostname) ==
    [id |-> id, network_id |-> networkID, address |-> address,
     hostname |-> hostname, status |-> "allocated"]

\* INSERT ... VALUES ($1, $2, $3, 'allocated') RETURNING id
AllocInsert(p) ==
    /\ pc[p] = "insert"
    /\ ipSeq < MaxRecords
    /\ ipSeq' = ipSeq + 1
    /\ pend' = [pend EXCEPT ![p] =
                  NewRow(ipSeq + 1, call[p].networkID, call[p].requestedIP, call[p].hostname)]
    /\ pc' = [pc EXCEPT ![p] = "commit"]
    /\ UNCHANGED <<networks, ip_addresses, call, ip, err, result>>

\* one evaluation of the loop condition and, inside the block, one iteration:
\* the gateway is skipped, any other candidate is tried with
\* INSERT ... SELECT ... WHERE NOT EXISTS (row for (network, candidate))
AllocScan(p) ==
    /\ pc[p] = "scan"
    /\ LET n == CHOOSE n \in NetworkRows(call[p].networkID) : TRUE IN
       IF ~Contains(n.cidr, ip[p])
       THEN IF err[p] = "ErrNoRows"
            THEN Finish(p, "exhausted", NoRow) /\ UNCHANGED ipSeq
            ELSE /\ pc' = [pc EXCEPT ![p] = "commit"]
                 /\ UNCHANGED <<ip, err, ipSeq, pend, result>>
       ELSE IF CandidateIsGateway(ip[p], n.gateway)
       THEN /\ ip' = [ip EXCEPT ![p] = nextIP(ip[p])]
            /\ UNCHANGED <<pc, err, ipSeq, pend, result>>
       ELSE IF CandidateFree(ip_addresses, call[p].networkID, ip[p])
       THEN /\ ipSeq < MaxRecords
            /\ ipSeq' = ipSeq + 1
            /\ pend' = [pend EXCEPT ![p] =
                          NewRow(ipSeq + 1, call[p].networkID, ip[p], call[p].hostname)]
            /\ err' = [err EXCEPT ![p] = "nil"]
            /\ pc' = [pc EXCEPT ![p] = "commit"]
            /\ UNCHANGED <<ip, result>>
       ELSE /\ err' = [err EXCEPT ![p] = "ErrNoRows"]
            /\ ip' = [ip EXCEPT ![p] = nextIP(ip[p])]
            /\ UNCHANGED <<pc, ipSeq, pend, result>>
    /\ UNCHANGED <<networks, ip_addresses, call>>

\* tx.Commit, then the returned address text is parsed: with no row
\* inserted the text is empty and the call fails after the commit
AllocCommit(p) ==
    /\ pc[p] = "commit"
    /\ IF pend[p] = NoRow
       THEN /\ Finish(p, "parse_failed", NoRow)
            /\ UNCHANGED ip_addresses
       ELSE /\ ip_addresses' = ip_addresses \cup {pend[p]}
            /\ Finish(p, "ok", pend[p])
    /\ UNCHANGED <<networks, ipSeq, call>>

AllocateIP(p) ==
    \/ AllocCheckHostname(p)
    \/ AllocReadNetwork(p)
    \/ AllocSelectForUpdate(p)
    \/ AllocInsert(p)
    \/ AllocScan(p)
    \/ AllocCommit(p)

(* ------------------------------ ReleaseIP ------------------------------ *)
CallReleaseIP(p, id) ==
    /\ pc[p] = "idle"
    /\ pc' = [pc EXCEPT ![p] = "release"]
    /\ call' = [call EXCEPT ![p] = [op |-> "ReleaseIP", networkID |-> 0,
                    requestedIP |-> NilIP, hostname |-> NULL, id |-> id]]
    /\ UNCHANGED <<networks, ip_addresses, ipSeq, ip, err, pend, result>>

\* the table after UPDATE ip_addresses SET status = 'available', hostname = NULL WHERE id = $1
Released_Delete(rows, id) == { r \in rows : r.id # id }
Released(rows, id) ==
    { IF r.id = id THEN [r EXCEPT !.status = "available", !.hostname = NULL] ELSE r : r \in rows }

\* a single autocommit UPDATE; it waits for a row another transaction has locked
ReleaseIP(p) ==
    /\ pc[p] = "release"
    /\ ~LockedByOther(p, call[p].id)
    /\ ip_addresses' = Released(ip_addresses, call[p].id)
    /\ IF \E r \in ip_addresses : r.id = call[p].id
       THEN Finish(p, "ok", NoRow)
       ELSE Finish(p, "not_found", NoRow)
    /\ UNCHANGED <<networks, ipSeq, call>>

(* -------------------------------- GetIP -------------------------------- *)
CallGetIP(p, id) ==
    /\ pc[p] = "idle"
    /\ pc' = [pc EXCEPT ![p] = "get"]
    /\ call' = [call EXCEPT ![p] = [op |-> "GetIP", networkID |-> 0,
                    requestedIP |-> NilIP, hostname |-> NULL, id |-> id]]
    /\ UNCHANGED <<networks, ip_addresses, ipSeq, ip, err, pend, result>>

\* what GetIP returns: (nil, nil) without a row; an error when Scan meets a
\* NULL hostname, which it cannot store in the string field; else the row
GetIPResult(rows, id) ==
    IF ~\E r \in rows : r.id = id
    THEN [outcome |-> "nil", ip |-> NoRow]
    ELSE LET r == CHOOSE r \in rows : r.id = id IN
         IF r.hostname = NULL
         THEN [outcome |-> "scan_error", ip |-> NoRow]
         ELSE [outcome |-> "ok", ip |-> r]

GetIP(p) ==
    /\ pc[p] = "get"
    /\ LET res == GetIPResult(ip_addresses, call[p].id) IN Finish(p, res.outcome, res.ip)
    /\ UNCHANGED <<networks, ip_addresses, ipSeq, call>>

(* ------------------------------- ListIPs ------------------------------- *)
CallListIPs(p, networkID) ==
    /\ pc[p] = "idle"
    /\ pc' = [pc EXCEPT ![p] = "list"]
    /\ call' = [call EXCEPT ![p] = [op |-> "ListIPs", networkID |-> networkID,
                    requestedIP |-> NilIP, hostname |-> NULL, id |-> 0]]
    /\ UNCHANGED <<networks, ip_addresses, ipSeq, ip, err, pend, result>>

\* what ListIPs returns: an error when Scan meets a row with a NULL hostname,
\* which it cannot store in the string field; else the rows of the network
ListIPsResult(rows, networkID) ==
    LET found == { r \in rows : r.network_id = networkID } IN
    IF \E r \in found : r.hostname = NULL
    THEN [outcome |-> "scan_error", ip |-> NoRow, ips |-> {}]
    ELSE [outcome |-> "ok", ip |-> NoRow, ips |-> found]

ListIPs(p) ==
    /\ pc[p] = "list"
    /\ pc' = [pc EXCEPT ![p] = "done"]
    /\ result' = [result EXCEPT ![p] = ListIPsResult(ip_addresses, call[p].networkID)]
    /\ UNCHANGED <<networks, ip_addresses, ipSeq, call, ip, err, pend>>

(* --------------------------- UpdateIPHostname -------------------------- *)
CallUpdateIPHostname(p, id, hostname) ==
    /\ pc[p] = "idle"
    /\ pc' = [pc EXCEPT ![p] = "rn_network"]
    /\ call' = [call EXCEPT ![p] = [op |-> "UpdateIPHostname", networkID |-> 0,
                    requestedIP |-> NilIP, hostname |-> hostname, id |-> id]]
    /\ UNCHANGED <<networks, ip_addresses, ipSeq, ip, err, pend, result>>

\* SELECT network_id FROM ip_addresses WHERE id = $1
RenameReadNetworkID(p) ==
    /\ pc[p] = "rn_network"
    /\ IF \E r \in ip_addresses : r.id = call[p].id
       THEN /\ call' = [call EXCEPT ![p].networkID =
                          (CHOOSE r \in ip_addresses : r.id = call[p].id).network_id]
            /\ pc' = [pc EXCEPT ![p] = "rn_hostname"]
            /\ UNCHANGED <<pend, result, ip, err>>
       ELSE Finish(p, "not_found", NoRow) /\ UNCHANGED call
    /\ UNCHANGED <<networks, ip_addresses, ipSeq>>

\* the hostname uniqueness check, which leaves the record itself out
RenameCheckHostname(p) ==
    /\ pc[p] = "rn_hostname"
    /\ IF OtherHostnameRows(ip_addresses, call[p].networkID, call[p].hostname,
                            call[p].id) # {}
       THEN Finish(p, "hostname_in_use", NoRow)
       ELSE /\ pc' = [pc EXCEPT ![p] = "rn_update"]
            /\ UNCHANGED <<pend, result, ip, err>>
    /\ UNCHANGED <<networks, ip_addresses, ipSeq, call>>

\* UPDATE ip_addresses SET hostname = $1 WHERE id = $2: the new row version
\* stays invisible, and the row locked, until the commit
RenameUpdate(p) ==
    /\ pc[p] = "rn_update"
    /\ ~LockedByOther(p, call[p].id)
    /\ IF \E r \in ip_addresses : r.id = call[p].id
       THEN /\ pend' = [pend EXCEPT ![p] =
                  [(CHOOSE r \in ip_addresses : r.id = call[p].id)
                       EXCEPT !.hostname = call[p].hostname]]
            /\ pc' = [pc EXCEPT ![p] = "rn_commit"]
            /\ UNCHANGED <<result, ip, err>>
       ELSE Finish(p, "not_found", NoRow)
    /\ UNCHANGED <<networks, ip_addresses, ipSeq, call>>

RenameCommit(p) ==
    /\ pc[p] = "rn_commit"
    /\ ip_addresses' = { r \in ip_addresses : r.id # pend[p].id } \cup {pend[p]}
    /\ Finish(p, "ok", NoRow)
    /\ UNCHANGED <<networks, ipSeq, call>>

UpdateIPHostname(p) ==
    \/ RenameReadNetworkID(p)
    \/ RenameCheckHostname(p)
    \/ RenameUpdate(p)
    \/ RenameCommit(p)

(* --------------------------- storage errors ---------------------------- *)
\* the committed table after defer tx.Rollback(): the uncommitted row is gone
RolledBack_Kept(rows, row) == IF row = NoRow THEN rows ELSE rows \cup {row}
RolledBack(rows, row) == rows

\* the call of p is about to run a statement of its transaction, the commit
\* included; the scan runs one only for a candidate it does not skip
AtStatement(p) ==
    \/ pc[p] \in { "hostname", "network", "select", "insert", "commit",
                   "rn_network", "rn_hostname", "rn_update", "rn_commit" }
    \/ /\ pc[p] = "scan"
       /\ LET n == CHOOSE n \in NetworkRows(call[p].networkID) : TRUE IN
          Contains(n.cidr, ip[p]) /\ ~CandidateIsGateway(ip[p], n.gateway)

\* the statement fails with an error other than sql.ErrNoRows: the call
\* returns the error and the deferred rollback undoes the transaction
StorageError(p) ==
    /\ AtStatement(p)
    /\ ip_addresses' = RolledBack(ip_addresses, pend[p])
    /\ Finish(p, "storage_error", NoRow)
    /\ UNCHANGED <<networks, ipSeq, call>>

(* --------------------------- specifications ---------------------------- *)
Step(p) ==
    \/ AllocateIP(p)
    \/ ReleaseIP(p)
    \/ GetIP(p)
    \/ ListIPs(p)
    \/ UpdateIPHostname(p)
    \/ Return(p)

\* callers that overlap freely, on the first network
Next ==
    \/ \E n \in NetworkInputs : networks = {} /\ CreateNetwork(n[1], n[2])
    \/ \E p \in Procs, a \in RacedIPs, h \in RacedHostnames :
          CallAllocateIP(p, FirstNetwork, a, h)
    \/ \E p \in Procs, id \in 1..MaxRecords : CallReleaseIP(p, id)
    \/ \E p \in Procs, id \in 1..MaxRecords : CallGetIP(p, id)
    \/ \E p \in Procs : CallListIPs(p, FirstNetwork)
    \/ \E p \in Procs, id \in 1..MaxRecords, h \in RacedHostnames :
          CallUpdateIPHostname(p, id, h)
    \/ \E p \in Procs : Step(p)

Spec == Init /\ [][Next]_vars

\* calls that do not overlap: one caller issues every call, each after the
\* previous one has returned
AllIdle == \A p \in Procs : pc[p] = "idle"
SeqCaller == CHOOSE p \in Procs : \A q \in Procs : p <= q

NextSeq ==
    \/ \E n \in NetworkInputs : AllIdle /\ CreateNetwork(n[1], n[2])
    \/ \E n \in 1..MaxNetworks, a \in RequestedIPs, h \in Hostnames :
          CallAllocateIP(SeqCaller, n, a, h)
    \/ \E id \in 1..MaxRecords : CallReleaseIP(SeqCaller, id)
    \/ \E id \in 1..MaxRecords : CallGetIP(SeqCaller, id)
    \/ \E n \in 1..MaxNetworks : CallListIPs(SeqCaller, n)
    \/ \E id \in 1..MaxRecords, h \in NewHostnames : CallUpdateIPHostname(SeqCaller, id, h)
    \/ Step(SeqCaller)

SpecSeq == Init /\ [][NextSeq]_vars

\* calls that do not overlap, any statement of which the store may fail
NextFail ==
    \/ NextSeq
    \/ StorageError(SeqCaller)

SpecFail == Init /\ [][NextFail]_vars

\* calls that do not overlap, on several networks of one shape: 10.0.0.0/30
\* with gateway 10.0.0.1; one network more than the other specifications have
NetsLimit == MaxNetworks + 1
NetsInput == <<CIDR(IP(0), 30), IP(1)>>
NetsIPs == { NilIP, IP(2) }

NextNets ==
    \/ AllIdle /\ CreateNetworkWithin(NetsLimit, NetsInput[1], NetsInput[2])
    \/ \E n \in 1..NetsLimit, a \in NetsIPs, h \in RacedHostnames :
          CallAllocateIP(SeqCaller, n, a, h)
    \/ \E id \in 1..MaxRecords : CallReleaseIP(SeqCaller, id)
    \/ AllocateIP(SeqCaller)
    \/ ReleaseIP(SeqCaller)
    \/ Return(SeqCaller)

SpecNets == Init /\ [][NextNets]_vars

\* calls that do not overlap, some of them with the empty hostname, which the
\* handler passes on as it is when the request has no hostname
EmptyHostname == ""
EmptyHostnames == { EmptyHostname, "h1" }

NextEmpty ==
    \/ AllIdle /\ CreateNetwork(NetsInput[1], NetsInput[2])
    \/ \E n \in 1..MaxNetworks, a \in NetsIPs, h \in EmptyHostnames :
          CallAllocateIP(SeqCaller, n, a, h)
    \/ \E id \in 1..MaxRecords : CallReleaseIP(SeqCaller, id)
    \/ \E id \in 1..MaxRecords, h \in NewHostnames : CallUpdateIPHostname(SeqCaller, id, h)
    \/ AllocateIP(SeqCaller)
    \/ ReleaseIP(SeqCaller)
    \/ UpdateIPHostname(SeqCaller)
    \/ Return(SeqCaller)

SpecEmpty == Init /\ [][NextEmpty]_vars

\* the first-available scan over a full pool, in an address family of one
\* octet (nextIP and Contains work on addresses of any length): the block
\* 0/0, which is the whole address space, and the block 252/6, whose last
\* address is the all-ones address; every address but the gateway has an
\* allocated record
Octet(d) == <<d>>
OctetIPs(cidr) == { Octet(d) : d \in { e \in 0..(OctetMod - 1) : Contains(cidr, Octet(e)) } }
ScanInputs == { <<CIDR(Octet(0), 0), Octet(1)>>, <<CIDR(Octet(252), 6), Octet(253)>> }
ScanHostname == "h1"

FullTable(networkID, cidr, gateway) ==
    { NewRow(a[1] + 1, networkID, a, ToString(a[1])) : a \in OctetIPs(cidr) \ {gateway} }

InitScan ==
    /\ \E n \in ScanInputs :
          /\ networks = { [id |-> FirstNetwork, cidr |-> n[1], gateway |-> n[2]] }
          /\ ip_addresses = FullTable(FirstNetwork, n[1], n[2])
    /\ ipSeq = OctetMod
    /\ pc = [p \in Procs |-> "idle"]
    /\ call = [p \in Procs |-> NoCall]
    /\ ip = [p \in Procs |-> NilIP]
    /\ err = [p \in Procs |-> "nil"]
    /\ pend = [p \in Procs |-> NoRow]
    /\ result = [p \in Procs |-> NoResult]

NextScan ==
    \/ CallAllocateIP(SeqCaller, FirstNetwork, NilIP, ScanHostname)
    \/ AllocCheckHostname(SeqCaller)
    \/ AllocReadNetwork(SeqCaller)
    \/ AllocScan(SeqCaller)
    \/ Return(SeqCaller)

\* the call runs on: no statement of it waits for another caller
SpecScan == InitScan /\ [][NextScan]_vars /\ WF_vars(NextScan)

\* nextIP alone, on the addresses net.ParseCIDR hands out: 4 octets with the
\* octets 0, 1, 254 and 255, and 16 octets made of a run of one octet
\* followed by a run of another, which gives carries of every length
EdgeOctets == { 0, 1, OctetMod - 2, OctetMod - 1 }
V4Inputs == { <<a, b, c, d>> : a \in EdgeOctets, b \in EdgeOctets,
                               c \in EdgeOctets, d \in EdgeOctets }
V6Inputs == { [i \in 1..16 |-> IF i <= k THEN x ELSE y] :
                 k \in 0..16, x \in EdgeOctets, y \in { 0, OctetMod - 1 } }
NextIPInputs == V4Inputs \cup V6Inputs

InitNextIP ==
    /\ networks = {}
    /\ ip_addresses = {}
    /\ ipSeq = 0
    /\ pc = [p \in Procs |-> "idle"]
    /\ call = [p \in Procs |-> NoCall]
    /\ \E a \in NextIPInputs : ip = [p \in Procs |-> IF p = SeqCaller THEN a ELSE NilIP]
    /\ err = [p \in Procs |-> "nil"]
    /\ pend = [p \in Procs |-> NoRow]
    /\ result = [p \in Procs |-> NoResult]

\* next := nextIP(ip): the function works on a copy, ip keeps its value
ApplyNextIP(p) ==
    /\ pc[p] = "idle"
    /\ ip[p] # NilIP
    /\ pc' = [pc EXCEPT ![p] = "done"]
    /\ call' = [call EXCEPT ![p] = [op |-> "nextIP", arg |-> ip[p]]]
    /\ result' = [result EXCEPT ![p] = [outcome |-> "ok", ip |-> nextIP(ip[p])]]
    /\ UNCHANGED <<networks, ip_addresses, ipSeq, ip, err, pend>>

NextNextIP == ApplyNextIP(SeqCaller)

SpecNextIP == InitNextIP /\ [][NextNextIP]_vars

(* ------------------------- notions of the claims ----------------------- *)
Done(p) == pc[p] = "done"
Allocated(r) == r.status = "allocated"
TheNetwork(id) == CHOOSE n \in networks : n.id = id

\* the call of p is an AllocateIP with an explicit address / without one
ExplicitCall(p) == call[p].op = "AllocateIP" /\ call[p].requestedIP # NilIP
FirstAvailableCall(p) == call[p].op = "AllocateIP" /\ call[p].requestedIP = NilIP

\* the addresses of a block, among the addresses 10.0.0.0 .. 10.0.0.7
KnownIPs == { IP(d) : d \in 0..7 }
BlockIPs(cidr) == { a \in KnownIPs : Contains(cidr, a) }

\* the rows of a network other than the row the call of p returned
RowsBefore(p, networkID) ==
    { r \in ip_addresses : r.network_id = networkID /\ r # result[p].ip }

(* ------------------------------- claims -------------------------------- *)

\* C1 (as claimed): of two overlapping AllocateIP calls that request the same
\* explicit address in the same network, at most one succeeds.
C1_ExplicitAddressExclusive ==
    \A p, q \in Procs :
        (/\ p # q /\ Done(p) /\ Done(q)
         /\ ExplicitCall(p) /\ ExplicitCall(q)
         /\ call[p].networkID = call[q].networkID
         /\ call[p].requestedIP = call[q].requestedIP)
        => ~(result[p].outcome = "ok" /\ result[q].outcome = "ok")

\* C2 (as claimed): two overlapping first-available AllocateIP calls on the
\* same network, with different hostnames, never both succeed with the same
\* address.
C2_FirstAvailableExclusive ==
    \A p, q \in Procs :
        (/\ p # q /\ Done(p) /\ Done(q)
         /\ FirstAvailableCall(p) /\ FirstAvailableCall(q)
         /\ call[p].networkID = call[q].networkID
         /\ call[p].hostname # call[q].hostname
         /\ result[p].outcome = "ok" /\ result[q].outcome = "ok")
        => result[p].ip.address # result[q].ip.address

\* C3 (as claimed): in every reachable state at most one allocated record of a
\* network holds a given hostname; stated for records of different addresses,
\* so that two records of one address are not what refutes it.
C3_HostnameUniqueAmongAllocated ==
    \A r1, r2 \in ip_addresses :
        (/\ r1.network_id = r2.network_id
         /\ Allocated(r1) /\ Allocated(r2)
         /\ SqlEq(r1.hostname, r2.hostname)
         /\ r1.address # r2.address)
        => r1 = r2

\* C4 (as claimed): the address of every record lies inside the CIDR block of
\* its network.
C4_AddressInsideCIDR ==
    \A r \in ip_addresses : \A n \in NetworkRows(r.network_id) :
        Contains(n.cidr, r.address)

\* C5: no record has the address of the gateway of its network.
C5_GatewayNeverAllocated ==
    \A r \in ip_addresses : \A n \in NetworkRows(r.network_id) :
        r.address # n.gateway

\* C5 witness: the scan passed over the gateway and handed out the address
\* after it, and an explicit request for the gateway was turned down.
C5_Witness ==
    \E p \in Procs :
        /\ Done(p) /\ ExplicitCall(p) /\ result[p].outcome = "gateway"
        /\ \E r \in ip_addresses :
              /\ r.network_id = call[p].networkID
              /\ r.address = nextIP(TheNetwork(r.network_id).gateway)

\* C6 (as claimed): every stored network has its gateway inside its CIDR block.
C6_GatewayInsideCIDR ==
    \A n \in networks : Contains(n.cidr, n.gateway)

\* the step with which the call of p returns
Completes(p) == pc[p] # "done" /\ pc'[p] = "done"

\* the call of p asks an existing network for its gateway address
GatewayRequest(p) ==
    /\ ExplicitCall(p)
    /\ NetworkRows(call[p].networkID) # {}
    /\ call[p].requestedIP = TheNetwork(call[p].networkID).gateway

\* C7 (as claimed): an AllocateIP call that requests the gateway of an
\* existing network always ends with the gateway rejection, whatever the
\* hostname.
C7_GatewayRequestRejectedAsGateway ==
    \A p \in Procs :
        (Done(p) /\ GatewayRequest(p)) => result[p].outcome = "gateway"

\* C7 (amended): an AllocateIP call that requests the gateway of an existing
\* network never writes a record; it ends with the hostname conflict when a
\* record of the network holds the hostname, and with the gateway rejection
\* otherwise.
C7_GatewayRequestNeverAllocates ==
    [][\A p \in Procs :
          (Completes(p) /\ GatewayRequest(p)) =>
              /\ ip_addresses' = ip_addresses
              /\ result'[p].outcome =
                    IF HostnameRows(ip_addresses, call[p].networkID, call[p].hostname) # {}
                    THEN "hostname_in_use" ELSE "gateway"]_vars

\* C7 witness: the gateway was requested from a network that already has a
\* record, with a hostname nobody holds, and the call was turned down.
C7_Witness ==
    \E p \in Procs :
        /\ Done(p) /\ GatewayRequest(p) /\ result[p].outcome = "gateway"
        /\ \E r \in ip_addresses : r.network_id = call[p].networkID /\ Allocated(r)

\* every address of the block of n but the gateway has an allocated record
PoolFull(n) ==
    \A a \in BlockIPs(n.cidr) \ {n.gateway} :
        \E r \in ip_addresses : r.network_id = n.id /\ r.address = a /\ Allocated(r)

\* C8 (as claimed): a first-available AllocateIP, with a hostname nobody
\* holds, on a network whose every non-gateway address is taken ends with
\* the exhaustion outcome.
C8_FullPoolExhausted ==
    \A p \in Procs :
        (/\ Done(p) /\ FirstAvailableCall(p)
         /\ NetworkRows(call[p].networkID) # {}
         /\ PoolFull(TheNetwork(call[p].networkID))
         /\ HostnameRows(ip_addresses, call[p].networkID, call[p].hostname) = {})
        => result[p].outcome = "exhausted"

\* the rows are what first-available allocations alone leave in network n:
\* inside the block, above its base address, and with no unused non-gateway
\* address below a used one
ScanPrefix(rows, n) ==
    /\ \A r \in rows : r.address \in BlockIPs(n.cidr) /\ IPLess(n.cidr.ip, r.address)
    /\ \A r \in rows : \A a \in BlockIPs(n.cidr) :
          (IPLess(n.cidr.ip, a) /\ IPLess(a, r.address) /\ a # n.gateway)
          => \E r2 \in rows : r2.address = a

LastIP(cidr) == CHOOSE a \in BlockIPs(cidr) : \A b \in BlockIPs(cidr) : ~IPLess(a, b)

\* C9: in a network that has seen first-available allocations only, a
\* first-available AllocateIP with a new hostname returns an address that is
\* not the gateway and is greater than every address handed out before; once
\* the last address of the block is handed out it ends with exhaustion; in
\* 10.0.0.0/30 with gateway 10.0.0.1 the calls return 10.0.0.2, 10.0.0.3,
\* then exhaustion.
C9_FreshScanIncreasing ==
    \A p \in Procs :
        (/\ Done(p) /\ FirstAvailableCall(p)
         /\ NetworkRows(call[p].networkID) # {}
         /\ ScanPrefix(RowsBefore(p, call[p].networkID), TheNetwork(call[p].networkID))
         /\ HostnameRows(RowsBefore(p, call[p].networkID),
                         call[p].networkID, call[p].hostname) = {})
        => LET n == TheNetwork(call[p].networkID)
               before == { r.address : r \in RowsBefore(p, call[p].networkID) }
               res == result[p]
           IN  /\ res.outcome = "ok" =>
                     /\ res.ip.address # n.gateway
                     /\ \A b \in before : IPLess(b, res.ip.address)
               /\ LastIP(n.cidr) \in before => res.outcome = "exhausted"
               /\ (n.cidr = CIDR(IP(0), 30) /\ n.gateway = IP(1)) =>
                     /\ before = {} => (res.outcome = "ok" /\ res.ip.address = IP(2))
                     /\ before = {IP(2)} => (res.outcome = "ok" /\ res.ip.address = IP(3))
                     /\ before = {IP(2), IP(3)} => res.outcome = "exhausted"

\* C9 witness: in 10.0.0.0/30 with gateway 10.0.0.1 the third first-available
\* call, after 10.0.0.2 and 10.0.0.3 were handed out, ended with exhaustion.
C9_Witness ==
    \E p \in Procs :
        /\ Done(p) /\ FirstAvailableCall(p) /\ result[p].outcome = "exhausted"
        /\ NetworkRows(call[p].networkID) # {}
        /\ TheNetwork(call[p].networkID).cidr = CIDR(IP(0), 30)
        /\ TheNetwork(call[p].networkID).gateway = IP(1)
        /\ { r.address : r \in RowsBefore(p, call[p].networkID) } = {IP(2), IP(3)}
        /\ \A r \in RowsBefore(p, call[p].networkID) : Allocated(r)

\* C10 (as claimed): GetIP on a released record returns that record, with
\* its id, network and address, status available and no hostname.
C10_ReleasedRecordFetched ==
    \A p \in Procs :
        \A r \in ip_addresses :
            (/\ Done(p) /\ call[p].op = "GetIP" /\ call[p].id = r.id
             /\ r.status = "available" /\ r.hostname = NULL)
            => (result[p].outcome = "ok" /\ result[p].ip = r)

\* the records of the network that carry the hostname
Holders(networkID, hostname) ==
    { r \in ip_addresses : r.network_id = networkID /\ r.hostname = hostname }

\* an allocated record of the network holds the hostname
HostnameHeld(networkID, hostname) ==
    \E r \in Holders(networkID, hostname) : Allocated(r)

\* the call of p can be given an address: the requested address is not the
\* gateway and has no record, or, without a requested address, some address
\* of the block above its base is not the gateway and has no record
HasFreeAddress(p) ==
    /\ NetworkRows(call[p].networkID) # {}
    /\ LET n == TheNetwork(call[p].networkID) IN
       IF call[p].requestedIP # NilIP
       THEN /\ call[p].requestedIP # n.gateway
            /\ AddressRows(ip_addresses, n.id, call[p].requestedIP) = {}
       ELSE \E a \in BlockIPs(n.cidr) \ {n.gateway} :
               IPLess(n.cidr.ip, a) /\ AddressRows(ip_addresses, n.id, a) = {}

\* C11: while an allocated record of network A holds hostname h, an AllocateIP
\* in A with hostname h, with or without a requested address, ends with the
\* hostname conflict and writes no record; an AllocateIP with hostname h in
\* another network B, where no record holds h and an address is free, succeeds
\* and adds a record of B that holds h.
C11_HostnameUniquePerNetwork ==
    [][\A p \in Procs :
          (Completes(p) /\ call[p].op = "AllocateIP") =>
             /\ HostnameHeld(call[p].networkID, call[p].hostname) =>
                   /\ result'[p].outcome = "hostname_in_use"
                   /\ ip_addresses' = ip_addresses
             /\ (/\ \E n \in networks : n.id # call[p].networkID
                                          /\ HostnameHeld(n.id, call[p].hostname)
                 /\ Holders(call[p].networkID, call[p].hostname) = {}
                 /\ HasFreeAddress(p)) =>
                   /\ result'[p].outcome = "ok"
                   /\ result'[p].ip.network_id = call[p].networkID
                   /\ result'[p].ip.hostname = call[p].hostname
                   /\ Allocated(result'[p].ip)
                   /\ ip_addresses' = ip_addresses \cup {result'[p].ip}]_vars

\* C11 witness: allocated records of two networks hold one hostname, and a
\* further call with that hostname on one of the networks met the conflict.
C11_Witness ==
    \E p \in Procs :
        /\ Done(p) /\ call[p].op = "AllocateIP" /\ result[p].outcome = "hostname_in_use"
        /\ HostnameHeld(call[p].networkID, call[p].hostname)
        /\ \E n \in networks : n.id # call[p].networkID
                                /\ HostnameHeld(n.id, call[p].hostname)

\* C12: ReleaseIP of an id no record has ends with not-found and changes
\* nothing; of an existing record it sets the status to available and the
\* hostname to NULL, keeps the id, network and address of the record, and
\* changes no other record and no network.
C12_ReleaseFrame ==
    [][\A p \in Procs :
          (Completes(p) /\ call[p].op = "ReleaseIP") =>
             /\ networks' = networks
             /\ IF \E r \in ip_addresses : r.id = call[p].id
                THEN /\ result'[p].outcome = "ok"
                     /\ \E r \in ip_addresses :
                           /\ r.id = call[p].id
                           /\ ip_addresses' = (ip_addresses \ {r}) \cup
                                 { [id |-> r.id, network_id |-> r.network_id,
                                    address |-> r.address, hostname |-> NULL,
                                    status |-> "available"] }
                ELSE /\ result'[p].outcome = "not_found"
                     /\ ip_addresses' = ip_addresses]_vars

\* C12 witness: a record was released while another record stayed allocated.
C12_Witness ==
    \E p \in Procs :
        /\ Done(p) /\ call[p].op = "ReleaseIP" /\ result[p].outcome = "ok"
        /\ \E r \in ip_addresses :
              r.id = call[p].id /\ r.status = "available" /\ r.hostname = NULL
        /\ \E r \in ip_addresses : r.id # call[p].id /\ Allocated(r)

\* C13: UpdateIPHostname of an id no record has ends with not-found, and one
\* whose new hostname another record of the same network carries ends with
\* the hostname conflict, both without any change; otherwise, also when the
\* record already carries the new hostname, it succeeds and changes only the
\* hostname of that record, and no other record and no network.
C13_RenameFrame ==
    [][\A p \in Procs :
          (Completes(p) /\ call[p].op = "UpdateIPHostname") =>
             /\ networks' = networks
             /\ IF ~\E r \in ip_addresses : r.id = call[p].id
                THEN /\ result'[p].outcome = "not_found"
                     /\ ip_addresses' = ip_addresses
                ELSE LET r == CHOOSE r \in ip_addresses : r.id = call[p].id IN
                     IF \E r2 \in Holders(r.network_id, call[p].hostname) : r2.id # r.id
                     THEN /\ result'[p].outcome = "hostname_in_use"
                          /\ ip_addresses' = ip_addresses
                     ELSE /\ result'[p].outcome = "ok"
                          /\ ip_addresses' = (ip_addresses \ {r}) \cup
                                { [id |-> r.id, network_id |-> r.network_id,
                                   address |-> r.address, hostname |-> call[p].hostname,
                                   status |-> r.status] }]_vars

\* C13 witness: a released record was given a hostname and kept its status,
\* beside an allocated record with another hostname.
C13_Witness ==
    \E p \in Procs :
        /\ Done(p) /\ call[p].op = "UpdateIPHostname" /\ result[p].outcome = "ok"
        /\ \E r \in ip_addresses :
              /\ r.id = call[p].id /\ r.hostname = call[p].hostname
              /\ r.status = "available"
              /\ \E r2 \in ip_addresses :
                    r2.id # r.id /\ r2.network_id = r.network_id /\ Allocated(r2)

\* C14 (as claimed): an AllocateIP with a requested address ends with
\* 'address already allocated' only when an allocated record of the network
\* has that address; when the network exists, the address is not the gateway,
\* no record holds the hostname, and the address has no record or released
\* records only, the call succeeds with a record of that address and hostname.
C14_ReleasedAddressAllocatable ==
    \A p \in Procs :
        (/\ Done(p) /\ ExplicitCall(p)
         /\ NetworkRows(call[p].networkID) # {}
         /\ call[p].requestedIP # TheNetwork(call[p].networkID).gateway
         /\ \A r \in RowsBefore(p, call[p].networkID) :
               /\ r.hostname # call[p].hostname
               /\ r.address = call[p].requestedIP => ~Allocated(r))
        => /\ result[p].outcome = "ok"
           /\ result[p].ip.address = call[p].requestedIP
           /\ result[p].ip.hostname = call[p].hostname
           /\ Allocated(result[p].ip)

\* C15 (as claimed): a successful first-available AllocateIP returns the
\* lowest address of the scan that no allocated record holds: every
\* non-gateway address of the block between the base and the returned address
\* is held by an allocated record, so a released address below the
\* never-used ones is handed out again.
C15_LowestFreeReturned ==
    \A p \in Procs :
        (Done(p) /\ FirstAvailableCall(p) /\ result[p].outcome = "ok")
        => LET n == TheNetwork(call[p].networkID) IN
           \A a \in BlockIPs(n.cidr) \ {n.gateway} :
               (IPLess(n.cidr.ip, a) /\ IPLess(a, result[p].ip.address))
               => \E r \in RowsBefore(p, n.id) : r.address = a /\ Allocated(r)

\* the call of p runs in a transaction
InTransaction(p) == call[p].op \in { "AllocateIP", "UpdateIPHostname" }

\* C16: an AllocateIP or UpdateIPHostname call changes no table before it
\* returns; when it returns an error, whichever it is and at whichever
\* statement the store failed, both tables are as they were; when AllocateIP
\* returns a record, exactly that one record was added, allocated and with
\* the given hostname.
C16_AtomicFailure ==
    [][\A p \in Procs :
          InTransaction(p) =>
             /\ networks' = networks
             /\ ~Completes(p) => ip_addresses' = ip_addresses
             /\ (Completes(p) /\ result'[p].outcome # "ok") => ip_addresses' = ip_addresses
             /\ (Completes(p) /\ result'[p].outcome = "ok" /\ call[p].op = "AllocateIP") =>
                   /\ result'[p].ip \notin ip_addresses
                   /\ ip_addresses' = ip_addresses \cup {result'[p].ip}
                   /\ Allocated(result'[p].ip)
                   /\ result'[p].ip.hostname = call[p].hostname]_vars

\* C16 witness: the store failed an AllocateIP after its insert, and the
\* inserted row, whose id is spent, is in no table.
C16_Witness ==
    \E p \in Procs :
        /\ Done(p) /\ call[p].op = "AllocateIP" /\ result[p].outcome = "storage_error"
        /\ ipSeq > Cardinality(ip_addresses)

\* C17 (as claimed): in every reachable state ListIPs succeeds and returns
\* exactly the records of the network, released ones included, and GetIP
\* succeeds, with the record, for every id a record has.
C17_ReadsSucceed ==
    \A p \in Procs :
        /\ (Done(p) /\ call[p].op = "ListIPs") =>
              /\ result[p].outcome = "ok"
              /\ result[p].ips = { r \in ip_addresses : r.network_id = call[p].networkID }
        /\ (Done(p) /\ call[p].op = "GetIP") =>
              \A r \in ip_addresses :
                  r.id = call[p].id => (result[p].outcome = "ok" /\ result[p].ip = r)

\* C18 (as claimed): a first-available AllocateIP always returns, whatever the
\* block and however full the pool: also in a block that ends with the
\* all-ones address and in the block of prefix length 0 with every address
\* taken.
C18_ScanTerminates ==
    \A p \in Procs : (pc[p] = "scan") ~> Done(p)

\* an address as a big-endian number, in digits of two octets: digit j of a,
\* and the carry that adding one to a brings into digit j
LimbMod == OctetMod * OctetMod
Limb(a, j) == a[2 * j - 1] * OctetMod + a[2 * j]
Limbs(a) == 1..(Len(a) \div 2)
CarryInto(a, j) == IF \A k \in Limbs(a) : k > j => Limb(a, k) = LimbMod - 1 THEN 1 ELSE 0

\* b = (a + 1) mod 2^(8 * Len(a))
IsSuccessor(a, b) ==
    /\ Len(b) = Len(a)
    /\ \A j \in Limbs(a) : Limb(b, j) = (Limb(a, j) + CarryInto(a, j)) % LimbMod

AllOctets(n, d) == [i \in 1..n |-> d]

\* C19: nextIP(a) has the length of a and is the number (a + 1) mod
\* 2^(8 * Len(a)) written big-endian, so that the all-ones address gives the
\* all-zeros address; the argument keeps its value.
C19_NextIPIsSuccessor ==
    \A p \in Procs :
        (Done(p) /\ call[p].op = "nextIP") =>
            /\ IsSuccessor(call[p].arg, result[p].ip)
            /\ \A i \in 1..Len(result[p].ip) : result[p].ip[i] \in 0..(OctetMod - 1)
            /\ call[p].arg = AllOctets(Len(call[p].arg), OctetMod - 1) =>
                  result[p].ip = AllOctets(Len(call[p].arg), 0)
            /\ ip[p] = call[p].arg

\* C19 witness: nextIP of the all-ones address of 16 octets returned the
\* all-zeros address.
C19_Witness ==
    \E p \in Procs :
        /\ Done(p) /\ call[p].op = "nextIP"
        /\ call[p].arg = AllOctets(16, OctetMod - 1)
        /\ result[p].ip = AllOctets(16, 0)

\* the call of p is a first-available AllocateIP on an existing network that
\* had no record
FreshScan(p) ==
    /\ Done(p) /\ FirstAvailableCall(p)
    /\ NetworkRows(call[p].networkID) # {}
    /\ RowsBefore(p, call[p].networkID) = {}

\* C20 (as claimed): in a network without records whose gateway is not the
\* base address, the first first-available AllocateIP returns the base
\* address of the block.
C20_FreshScanReturnsBase ==
    \A p \in Procs :
        (FreshScan(p) /\ TheNetwork(call[p].networkID).gateway
                            # TheNetwork(call[p].networkID).cidr.ip)
        => /\ result[p].outcome = "ok"
           /\ result[p].ip.address = TheNetwork(call[p].networkID).cidr.ip

\* the addresses of the block above its base, the gateway left out
AboveBase(n) == { a \in BlockIPs(n.cidr) \ {n.gateway} : IPLess(n.cidr.ip, a) }

\* C20 (amended): the scan starts at the address after the base address: in
\* a network without records the first first-available AllocateIP returns
\* the lowest address of the block that is above the base address and is not
\* the gateway, never the base address; when the block has no such address
\* the call returns no record.
C20_FreshScanStartsAfterBase ==
    \A p \in Procs :
        FreshScan(p) =>
            LET n == TheNetwork(call[p].networkID) IN
            IF AboveBase(n) = {}
            THEN result[p].outcome # "ok"
            ELSE /\ result[p].outcome = "ok"
                 /\ result[p].ip.address \in AboveBase(n)
                 /\ \A a \in AboveBase(n) : ~IPLess(a, result[p].ip.address)
                 /\ result[p].ip.address # n.cidr.ip

\* C20 witness: in 10.0.0.2/31, whose gateway 10.0.0.1 is not in the block,
\* the first first-available call returned 10.0.0.3 and not the base 10.0.0.2.
C20_Witness ==
    \E p \in Procs :
        /\ FreshScan(p) /\ result[p].outcome = "ok"
        /\ TheNetwork(call[p].networkID).cidr = CIDR(IP(2), 31)
        /\ result[p].ip.address = IP(3)

\* C21: while an allocated record of a network carries the empty hostname,
\* every AllocateIP on that network with the empty hostname ends with the
\* hostname conflict and writes no record; once no record of the network
\* carries it, the record having been released or renamed, the call is no
\* longer turned down for its hostname.
C21_EmptyHostnameChecked ==
    [][\A p \in Procs :
          (/\ Completes(p) /\ call[p].op = "AllocateIP"
           /\ call[p].hostname = EmptyHostname) =>
             /\ HostnameHeld(call[p].networkID, EmptyHostname) =>
                   /\ result'[p].outcome = "hostname_in_use"
                   /\ ip_addresses' = ip_addresses
             /\ Holders(call[p].networkID, EmptyHostname) = {} =>
                   result'[p].outcome # "hostname_in_use"]_vars

\* C21 witness: a record with the empty hostname was released, a second
\* allocation with the empty hostname succeeded, and a third one met the
\* conflict.
C21_Witness ==
    \E p \in Procs :
        /\ Done(p) /\ call[p].op = "AllocateIP" /\ call[p].hostname = EmptyHostname
        /\ result[p].outcome = "hostname_in_use"
        /\ HostnameHeld(call[p].networkID, EmptyHostname)
        /\ \E r \in ip_addresses :
              r.network_id = call[p].networkID /\ r.status = "available"

\* C22 (as claimed): in every reachable state a record with status available
\* has no hostname; only allocated records carry one.
C22_AvailableHasNoHostname ==
    \A r \in ip_addresses : r.status = "available" => r.hostname = NULL

\* C23: when calls do not overlap, a (network, address) pair never has two
\* records, of whatever status: no step adds a row for an address that has
\* one, and every row stays, with its id, network and address.
C23_OneRecordPerAddress ==
    [][/\ \A r1, r2 \in ip_addresses' :
             (r1.network_id = r2.network_id /\ r1.address = r2.address) => r1 = r2
       /\ \A r \in ip_addresses : \E r2 \in ip_addresses' :
             r2.id = r.id /\ r2.network_id = r.network_id /\ r2.address = r.address]_vars

\* C23 witness: an AllocateIP that asked for an address whose only record is
\* released was turned down, and the address still has that one record.
C23_Witness ==
    \E p \in Procs :
        /\ Done(p) /\ ExplicitCall(p) /\ result[p].outcome = "already_allocated"
        /\ \E r \in ip_addresses :
              /\ r.network_id = call[p].networkID /\ r.address = call[p].requestedIP
              /\ r.status = "available"
              /\ \A r2 \in ip_addresses :
                    (r2.network_id = r.network_id /\ r2.address = r.address) => r2 = r

\* C24: when calls do not overlap, no two records of a network carry the
\* same hostname other than NULL, whatever their status; and once no record
\* of the network carries hostname h, the record that held it having been
\* released, an AllocateIP with h that can be given an address succeeds with
\* a record that carries h, and an UpdateIPHostname of a record of the
\* network to h succeeds.
C24_HostnameUniqueAndReusable ==
    [][/\ \A r1, r2 \in ip_addresses' :
             (/\ r1.network_id = r2.network_id
              /\ r1.hostname = r2.hostname /\ r1.hostname # NULL) => r1 = r2
       /\ \A p \in Procs :
             (/\ Completes(p) /\ call[p].op = "AllocateIP"
              /\ Holders(call[p].networkID, call[p].hostname) = {}
              /\ HasFreeAddress(p)) =>
                 /\ result'[p].outcome = "ok"
                 /\ result'[p].ip.hostname = call[p].hostname
                 /\ result'[p].ip \in ip_addresses'
       /\ \A p \in Procs : \A r \in ip_addresses :
             (/\ Completes(p) /\ call[p].op = "UpdateIPHostname"
              /\ r.id = call[p].id
              /\ Holders(r.network_id, call[p].hostname) = {}) =>
                 /\ result'[p].outcome = "ok"
                 /\ \E r2 \in ip_addresses' :
                       r2.id = r.id /\ r2.hostname = call[p].hostname]_vars

\* C24 witness: beside a released record, which has no hostname any more, a
\* later AllocateIP was given a new record with its hostname, the only record
\* of the network that carries it.
C24_Witness ==
    \E p \in Procs :
        /\ Done(p) /\ call[p].op = "AllocateIP" /\ result[p].outcome = "ok"
        /\ Holders(call[p].networkID, call[p].hostname) = {result[p].ip}
        /\ \E r \in ip_addresses :
              /\ r.network_id = call[p].networkID /\ r.id < result[p].ip.id
              /\ r.status = "available" /\ r.hostname = NULL
====
